---- MODULE Spec2Model ----
(***************************************************************************)
(* SC Environment impact check (.github/scripts/                           *)
(* sc_environment_impact_check.py): the rule matcher, the diff scan, the   *)
(* severity aggregation of ImpactReport and the exit code of main.         *)
(*                                                                         *)
(* Text is modelled as a sequence of one-character strings, so that        *)
(* startswith, fnmatch, the hunk-header regex and re.findall are computed  *)
(* character by character as the Python library computes them.             *)
(***************************************************************************)
EXTENDS Integers, Sequences, FiniteSets, TLC

VARIABLES
    pc,          \* position of main: start, constructed, loop, rules, output, gate, exited, crashed
    config,      \* self.config["patterns"]: the rules in declaration order
    report,      \* self.report: overall_impact, items, summary, changed_files
    files,       \* the local changed_files of analyze
    fileIdx,     \* position of the for loop of analyze (1-based)
    ruleIdx,     \* position of the for loop of analyze_file (1-based)
    diff,        \* the diff git produced for the file last given to analyze_file
    analysed,    \* the file paths analyze_file has been called with, in order
    output,      \* what main printed: "", "short", "full" or "json"
    fail_on,     \* args.fail_on, None when not supplied
    exit_code,   \* the process exit status, -1 while running
    error        \* the exception that ended the run, "" when none

vars == <<pc, config, report, files, fileIdx, ruleIdx, diff, analysed, output,
          fail_on, exit_code, error>>

----------------------------------------------------------------------------
(* Bounds of the model *)

MaxFiles == 2
MaxRules == 2
MaxHunks == 2
MaxHunkLines == 3

None == "<None>"
Missing == "<missing>"

----------------------------------------------------------------------------
(* Text helpers: str.startswith, str.lower, int(), str(int) *)

StartsWith(s, p) ==
    /\ Len(s) >= Len(p)
    /\ \A i \in 1..Len(p) : s[i] = p[i]

UpperToLower ==
    [c \in {"A", "B", "C", "D", "E", "F", "G", "H", "I", "J", "K", "L", "M", "N",
            "O", "P", "Q", "R", "S", "T", "U", "V", "W", "X", "Y", "Z"} |->
        CASE c = "A" -> "a" [] c = "B" -> "b" [] c = "C" -> "c" [] c = "D" -> "d"
          [] c = "E" -> "e" [] c = "F" -> "f" [] c = "G" -> "g" [] c = "H" -> "h"
          [] c = "I" -> "i" [] c = "J" -> "j" [] c = "K" -> "k" [] c = "L" -> "l"
          [] c = "M" -> "m" [] c = "N" -> "n" [] c = "O" -> "o" [] c = "P" -> "p"
          [] c = "Q" -> "q" [] c = "R" -> "r" [] c = "S" -> "s" [] c = "T" -> "t"
          [] c = "U" -> "u" [] c = "V" -> "v" [] c = "W" -> "w" [] c = "X" -> "x"
          [] c = "Y" -> "y" [] c = "Z" -> "z"]

Lower(c) == IF c \in DOMAIN UpperToLower THEN UpperToLower[c] ELSE c

Digits == <<"0", "1", "2", "3", "4", "5", "6", "7", "8", "9">>

IsDigit(c) == \E d \in 1..10 : Digits[d] = c

DigitValue(c) == (CHOOSE d \in 1..10 : Digits[d] = c) - 1

RECURSIVE ParseInt(_)
ParseInt(s) ==
    IF s = <<>> THEN 0
    ELSE 10 * ParseInt(SubSeq(s, 1, Len(s) - 1)) + DigitValue(s[Len(s)])

RECURSIVE IntToStr(_)
IntToStr(n) ==
    IF n < 10 THEN <<Digits[n + 1]>>
    ELSE IntToStr(n \div 10) \o <<Digits[(n % 10) + 1]>>

----------------------------------------------------------------------------
(* ImpactLevel: the enum, its value strings and its ordering *)

ImpactLevels == {"NONE", "LOW", "MEDIUM", "HIGH", "CRITICAL"}

ImpactValues == {"none", "low", "medium", "high", "critical"}

\* ImpactLevel(value): the member whose value is `value` (ValueError otherwise)
ImpactLevelOf(value) ==
    CASE value = "none" -> "NONE"
      [] value = "low" -> "LOW"
      [] value = "medium" -> "MEDIUM"
      [] value = "high" -> "HIGH"
      [] value = "critical" -> "CRITICAL"

order == <<"NONE", "LOW", "MEDIUM", "HIGH", "CRITICAL">>

OrderIndex(level) == CHOOSE i \in 1..Len(order) : order[i] = level

\* The order in which the value strings sort as plain strings
LexicalIndex(level) ==
    CASE level = "CRITICAL" -> 1
      [] level = "HIGH" -> 2
      [] level = "LOW" -> 3
      [] level = "MEDIUM" -> 4
      [] level = "NONE" -> 5

ImpactLtLexical(a, b) == LexicalIndex(a) < LexicalIndex(b)

\* ImpactLevel.__lt__
ImpactLt(a, b) == OrderIndex(a) < OrderIndex(b)

\* ImpactLevel.__eq__
ImpactEq(a, b) == a = b

\* total_ordering: a > b is (not a < b) and a != b
ImpactGt(a, b) == ~ImpactLt(a, b) /\ ~ImpactEq(a, b)

\* total_ordering: a >= b is not a < b
ImpactGe(a, b) == ~ImpactLt(a, b)

----------------------------------------------------------------------------
(* ImpactReport *)

EmptyReport ==
    [overall_impact |-> "NONE", items |-> <<>>, summary |-> <<>>,
     changed_files |-> <<>>]

\* A mistaken add_item that takes the level of the last item added
AddItemLast(r, item) ==
    [r EXCEPT !.items = Append(r.items, item),
              !.overall_impact = item.impact_level]

\* A mistaken add_item that puts the new item in front of the list
AddItemFront(r, item) ==
    [r EXCEPT !.items = <<item>> \o r.items,
              !.overall_impact =
                  IF ImpactGt(item.impact_level, r.overall_impact)
                  THEN item.impact_level
                  ELSE r.overall_impact]

\* ImpactReport.add_item
AddItem(r, item) ==
    [r EXCEPT !.items = Append(r.items, item),
              !.overall_impact =
                  IF ImpactGt(item.impact_level, r.overall_impact)
                  THEN item.impact_level
                  ELSE r.overall_impact]

CountLevel(items, level) ==
    Cardinality({i \in 1..Len(items) : ImpactEq(items[i].impact_level, level)})

\* ImpactReport.generate_summary
GenerateSummary(r) ==
    [r EXCEPT !.summary =
        [total_items |-> Len(r.items),
         critical |-> CountLevel(r.items, "CRITICAL"),
         high |-> CountLevel(r.items, "HIGH"),
         medium |-> CountLevel(r.items, "MEDIUM"),
         low |-> CountLevel(r.items, "LOW")]]

----------------------------------------------------------------------------
(* check_path_patterns: fnmatch.fnmatch on a POSIX system (normcase is the  *)
(* identity).  `*` translates to the regex `.*` and `?` to `.`, matched    *)
(* against the whole name; the patterns used here have no `[` class.       *)

RECURSIVE FnMatchFrom(_, _, _, _)
FnMatchFrom(name, i, pat, j) ==
    IF j > Len(pat) THEN i > Len(name)
    ELSE IF pat[j] = "*"
         THEN \/ FnMatchFrom(name, i, pat, j + 1)
              \/ (i <= Len(name) /\ FnMatchFrom(name, i + 1, pat, j))
    ELSE IF pat[j] = "?"
         THEN i <= Len(name) /\ FnMatchFrom(name, i + 1, pat, j + 1)
    ELSE i <= Len(name) /\ name[i] = pat[j] /\ FnMatchFrom(name, i + 1, pat, j + 1)

FnMatch(name, pat) == FnMatchFrom(name, 1, pat, 1)

\* SCEnvironmentImpactChecker.check_path_patterns
CheckPathPatterns(file_path, patterns) ==
    \E k \in 1..Len(patterns) : FnMatch(file_path, patterns[k])

----------------------------------------------------------------------------
(* The diff of one file as git writes it.  A diff is a sequence of hunks;   *)
(* a hunk has the first line number of its old and new range and a body of *)
(* context, removed and added lines.  DiffContent is the text              *)
(* get_file_diff returns, already split at '\n' as check_content_patterns  *)
(* splits it.                                                              *)

EmptyDiff == [hunks |-> <<>>, nonl |-> FALSE]

CountKinds(body, kinds) == Cardinality({k \in 1..Len(body) : body[k].kind \in kinds})

RangeText(start, count) ==
    IF count = 1 THEN IntToStr(start)
    ELSE IntToStr(start) \o <<",">> \o IntToStr(count)

HunkHeader(h) ==
    <<"@", "@", " ", "-">>
        \o RangeText(h.oldStart, CountKinds(h.body, {"ctx", "del"}))
        \o <<" ", "+">>
        \o RangeText(h.newStart, CountKinds(h.body, {"ctx", "add"}))
        \o <<" ", "@", "@">>

Marker(kind) ==
    CASE kind = "add" -> "+"
      [] kind = "del" -> "-"
      [] kind = "ctx" -> " "

HunkText(h) ==
    <<HunkHeader(h)>> \o [k \in 1..Len(h.body) |-> <<Marker(h.body[k].kind)>> \o h.body[k].text]

RECURSIVE HunksText(_)
HunksText(hunks) ==
    IF hunks = <<>> THEN <<>>
    ELSE HunkText(Head(hunks)) \o HunksText(Tail(hunks))

FileHeader ==
    << <<"d", "i", "f", "f", " ", "-", "-", "g", "i", "t">>,
       <<"i", "n", "d", "e", "x", " ", "1", ".", ".", "2">>,
       <<"-", "-", "-", " ", "a", "/", "f">>,
       <<"+", "+", "+", " ", "b", "/", "f">> >>

NoNewlineMarker == <<"\\", " ", "N", "o", " ", "n", "e", "w", "l", "i", "n", "e">>

\* get_file_diff(...).split('\n'): an empty output when git fails or the file has no diff
DiffContent(d) ==
    IF d.hunks = <<>> THEN << <<>> >>
    ELSE FileHeader \o HunksText(d.hunks)
            \o (IF d.nonl THEN <<NoNewlineMarker>> ELSE <<>>) \o << <<>> >>

----------------------------------------------------------------------------
(* check_content_patterns: the hunk-header regex                           *)
(*   ^@@ -\d+(?:,\d+)? \+(\d+)(?:,\d+)? @@                                   *)

CharAt(s, i) == IF i >= 1 /\ i <= Len(s) THEN s[i] ELSE ""

RECURSIVE DigitsEnd(_, _)
DigitsEnd(s, i) == IF IsDigit(CharAt(s, i)) THEN DigitsEnd(s, i + 1) ELSE i

\* the position after an optional `,\d+` starting at i
OptCountEnd(s, i) ==
    IF CharAt(s, i) = "," /\ DigitsEnd(s, i + 1) > i + 1 THEN DigitsEnd(s, i + 1) ELSE i

\* group(1) of the hunk-header match as an integer, -1 when the line does not match
HunkMatch(s) ==
    LET aEnd == DigitsEnd(s, 5)
        bEnd == OptCountEnd(s, aEnd)
        cStart == bEnd + 2
        cEnd == DigitsEnd(s, cStart)
        dEnd == OptCountEnd(s, cEnd)
    IN  IF /\ StartsWith(s, <<"@", "@", " ", "-">>)
           /\ aEnd > 5
           /\ CharAt(s, bEnd) = " " /\ CharAt(s, bEnd + 1) = "+"
           /\ cEnd > cStart
           /\ CharAt(s, dEnd) = " " /\ CharAt(s, dEnd + 1) = "@" /\ CharAt(s, dEnd + 2) = "@"
        THEN ParseInt(SubSeq(s, cStart, cEnd - 1))
        ELSE -1

\* The loop of check_content_patterns over the diff lines: the lines it treats as
\* additions, each with the value of current_line at that moment
RECURSIVE AddedLines(_, _, _, _)
AddedLines(lines, i, current_line, acc) ==
    IF i > Len(lines) THEN acc
    ELSE LET diff_line == lines[i]
         IN  IF HunkMatch(diff_line) >= 0
             THEN AddedLines(lines, i + 1, HunkMatch(diff_line), acc)
             ELSE IF StartsWith(diff_line, <<"+">>) /\ ~StartsWith(diff_line, <<"+", "+", "+">>)
             THEN AddedLines(lines, i + 1, current_line + 1,
                      Append(acc, [text |-> Tail(diff_line), line_number |-> current_line]))
             ELSE IF StartsWith(diff_line, <<"-">>) \/ StartsWith(diff_line, <<"-", "-", "-">>)
             THEN AddedLines(lines, i + 1, current_line, acc)
             ELSE IF ~StartsWith(diff_line, <<"\\">>)
             THEN AddedLines(lines, i + 1, current_line + 1, acc)
             ELSE AddedLines(lines, i + 1, current_line, acc)

----------------------------------------------------------------------------
(* re.findall(pattern, line_content, re.IGNORECASE) for the regexes made of *)
(* literal characters, `\` escapes and at most one capture group.  With a *)
(* capture group findall returns the text of the group, not of the match.  *)

RECURSIVE CompileFrom(_, _, _)
CompileFrom(p, i, acc) ==
    IF i > Len(p) THEN [acc EXCEPT !.valid = acc.valid /\ ~acc.open]
    ELSE IF p[i] = "\\"
         THEN IF i = Len(p) THEN [acc EXCEPT !.valid = FALSE]
              ELSE CompileFrom(p, i + 2, [acc EXCEPT !.lit = Append(acc.lit, p[i + 1])])
    ELSE IF p[i] = "("
         THEN CompileFrom(p, i + 1,
                  [acc EXCEPT !.open = TRUE, !.group = TRUE, !.gfrom = Len(acc.lit) + 1])
    ELSE IF p[i] = ")"
         THEN IF acc.open
              THEN CompileFrom(p, i + 1, [acc EXCEPT !.open = FALSE, !.gto = Len(acc.lit)])
              ELSE [acc EXCEPT !.valid = FALSE]
    ELSE CompileFrom(p, i + 1, [acc EXCEPT !.lit = Append(acc.lit, p[i])])

\* re.compile: valid is FALSE where Python raises re.error
Compile(p) ==
    CompileFrom(p, 1, [lit |-> <<>>, group |-> FALSE, gfrom |-> 0, gto |-> 0,
                       open |-> FALSE, valid |-> TRUE])

MatchesAt(c, line, pos) ==
    /\ pos + Len(c.lit) - 1 <= Len(line)
    /\ \A t \in 1..Len(c.lit) : Lower(line[pos + t - 1]) = Lower(c.lit[t])

\* what findall yields for the match at pos
FoundText(c, line, pos) ==
    IF c.group THEN SubSeq(line, pos + c.gfrom - 1, pos + c.gto - 1)
    ELSE SubSeq(line, pos, pos + Len(c.lit) - 1)

RECURSIVE FindAllFrom(_, _, _)
FindAllFrom(c, line, pos) ==
    IF pos > Len(line) + 1 THEN <<>>
    ELSE IF MatchesAt(c, line, pos)
         THEN <<FoundText(c, line, pos)>>
                 \o FindAllFrom(c, line, IF Len(c.lit) = 0 THEN pos + 1 ELSE pos + Len(c.lit))
    ELSE FindAllFrom(c, line, pos + 1)

FindAll(pattern, line_content) == FindAllFrom(Compile(pattern), line_content, 1)

\* the matched substrings themselves, whatever the groups of the pattern
RECURSIVE WholeMatchesFrom(_, _, _)
WholeMatchesFrom(c, line, pos) ==
    IF pos > Len(line) + 1 THEN <<>>
    ELSE IF MatchesAt(c, line, pos)
         THEN <<SubSeq(line, pos, pos + Len(c.lit) - 1)>>
                 \o WholeMatchesFrom(c, line, IF Len(c.lit) = 0 THEN pos + 1 ELSE pos + Len(c.lit))
    ELSE WholeMatchesFrom(c, line, pos + 1)

----------------------------------------------------------------------------
(* check_content_patterns and the rule loop of analyze_file *)

DetailLimit == 5

RECURSIVE FlattenSeq(_)
FlattenSeq(ss) == IF ss = <<>> THEN <<>> ELSE Head(ss) \o FlattenSeq(Tail(ss))

\* the matches one added line contributes: patterns in order, findall order within
LineMatches(added, patterns) ==
    FlattenSeq([k \in 1..Len(patterns) |->
        LET found == FindAll(patterns[k], added.text)
        IN  [m \in 1..Len(found) |->
                [pattern |-> found[m], line_number |-> added.line_number]]])

\* SCEnvironmentImpactChecker.check_content_patterns (when no regex is invalid)
CheckContentPatterns(diff_content, patterns) ==
    LET added == AddedLines(diff_content, 1, 0, <<>>)
    IN  FlattenSeq([a \in 1..Len(added) |-> LineMatches(added[a], patterns)])

\* re.findall raises re.error: some line is scanned and some pattern does not compile
ContentPatternsRaise(diff_content, patterns) ==
    /\ AddedLines(diff_content, 1, 0, <<>>) # <<>>
    /\ \E k \in 1..Len(patterns) : ~Compile(patterns[k]).valid

\* the detail string f"Found `{pattern}` in `{file_path}` at line {line_number}",
\* kept as the three values it interpolates
DetailText(m, file_path) ==
    [found |-> m.pattern, file_path |-> file_path, line_number |-> m.line_number]

\* analyze_file: deduplicate by (pattern, line_number) and stop at 5 details
RECURSIVE DetailsFrom(_, _, _, _, _)
DetailsFrom(matches, i, seen, details, file_path) ==
    IF i > Len(matches) THEN details
    ELSE LET key == <<matches[i].pattern, matches[i].line_number>>
             next == IF key \notin seen
                     THEN Append(details, DetailText(matches[i], file_path))
                     ELSE details
         IN  IF Len(next) >= DetailLimit THEN next
             ELSE DetailsFrom(matches, i + 1, seen \cup {key}, next, file_path)

Details(matches, file_path) == DetailsFrom(matches, 1, {}, <<>>, file_path)

\* One iteration of the rule loop of analyze_file: "skip" (continue), "raise"
\* (an exception leaves analyze_file) or "item" (the ImpactItem given to add_item)
RuleOutcome(rule, file_path, diff_content) ==
    IF rule.paths # <<>> /\ ~CheckPathPatterns(file_path, rule.paths)
    THEN [kind |-> "skip"]
    ELSE IF rule.content_patterns # <<>>
            /\ ContentPatternsRaise(diff_content, rule.content_patterns)
    THEN [kind |-> "raise", error |-> "re.error"]
    ELSE IF rule.content_patterns # <<>>
            /\ CheckContentPatterns(diff_content, rule.content_patterns) = <<>>
    THEN [kind |-> "skip"]
    ELSE IF rule.impact_level = Missing
    THEN [kind |-> "raise", error |-> "KeyError"]
    ELSE IF rule.impact_level \notin ImpactValues
    THEN [kind |-> "raise", error |-> "ValueError"]
    ELSE IF rule.description = Missing
    THEN [kind |-> "raise", error |-> "KeyError"]
    ELSE [kind |-> "item",
          item |-> [category |-> rule.name,
                    impact_level |-> ImpactLevelOf(rule.impact_level),
                    file_path |-> file_path,
                    description |-> rule.description,
                    details |-> IF rule.content_patterns # <<>>
                                THEN Details(CheckContentPatterns(diff_content,
                                                 rule.content_patterns), file_path)
                                ELSE <<>>,
                    recommendation |-> rule.recommendation]]

\* analyze: files in the .github directory are skipped
\* A mistaken check that forgets the path `.github` itself
IsExcludedSlashOnly(file_path) ==
    StartsWith(file_path, <<".", "g", "i", "t", "h", "u", "b", "/">>)

IsExcluded(file_path) ==
    \/ StartsWith(file_path, <<".", "g", "i", "t", "h", "u", "b", "/">>)
    \/ file_path = <<".", "g", "i", "t", "h", "u", "b">>

----------------------------------------------------------------------------
(* Inputs: file paths, regexes and rules *)

DeployClowdapp == <<"d", "e", "p", "l", "o", "y", "/", "c", "l", "o", "w", "d", "a", "p", "p", ".", "y", "m", "l">>

DeploySubClowdapp == <<"d", "e", "p", "l", "o", "y", "/", "s", "u", "b", "/", "c", "l", "o", "w", "d", "a", "p", "p", ".", "y", "m", "l">>

DotGithub == <<".", "g", "i", "t", "h", "u", "b">>

DotGithubWorkflow == <<".", "g", "i", "t", "h", "u", "b", "/", "c", "i", ".", "y", "m", "l">>

DocsKessel == <<"d", "o", "c", "s", "/", "k", "e", "s", "s", "e", "l", ".", "m", "d">>

FilePool == {DeployClowdapp, DeploySubClowdapp, DotGithub, DotGithubWorkflow}

DeployYmlGlob == <<"d", "e", "p", "l", "o", "y", "/", "*", ".", "y", "m", "l">>

DeployTreeGlob == <<"d", "e", "p", "l", "o", "y", "/", "*">>

KesselGlob == <<"*", "*", "/", "*", "k", "e", "s", "s", "e", "l", "*">>

KesselLower == <<"k", "e", "s", "s", "e", "l">>

KesselUpper == <<"K", "E", "S", "S", "E", "L">>

S3Call == <<"s", "3", "\\", ".", "(", "g", "e", "t", ")">>

UnclosedGroup == <<"(">>

Recommend == "recommendation"

ClowdappConfig ==
    [name |-> "clowdapp_config", paths |-> <<DeployYmlGlob>>, content_patterns |-> <<>>,
     impact_level |-> "high", description |-> "ClowdApp configuration change",
     recommendation |-> Recommend]

KesselContent ==
    [name |-> "kessel_content", paths |-> <<>>,
     content_patterns |-> <<KesselLower, KesselUpper>>,
     impact_level |-> "critical", description |-> "Kessel integration change",
     recommendation |-> Recommend]

KesselIntegration ==
    [name |-> "kessel_integration", paths |-> <<KesselGlob>>,
     content_patterns |-> <<KesselLower, KesselUpper>>,
     impact_level |-> "critical", description |-> "Kessel integration change",
     recommendation |-> Recommend]

AwsS3 ==
    [name |-> "aws_s3", paths |-> <<>>, content_patterns |-> <<S3Call>>,
     impact_level |-> "high", description |-> "AWS S3 integration change",
     recommendation |-> Recommend]

AllChanges ==
    [name |-> "all_changes", paths |-> <<>>, content_patterns |-> <<>>,
     impact_level |-> "medium", description |-> "Change detected",
     recommendation |-> None]

DeployTree ==
    [name |-> "deploy_tree", paths |-> <<DeployTreeGlob>>, content_patterns |-> <<>>,
     impact_level |-> "low", description |-> "Deployment file change",
     recommendation |-> None]

ClowdappKessel ==
    [name |-> "clowdapp_kessel", paths |-> <<DeployYmlGlob>>,
     content_patterns |-> <<KesselLower>>,
     impact_level |-> "medium", description |-> "Kessel in ClowdApp configuration",
     recommendation |-> None]

Informational ==
    [name |-> "informational", paths |-> <<>>, content_patterns |-> <<>>,
     impact_level |-> "none", description |-> "Change noted",
     recommendation |-> None]

BadLevel ==
    [name |-> "bad_level", paths |-> <<DeployYmlGlob>>, content_patterns |-> <<>>,
     impact_level |-> "severe", description |-> "Deployment change",
     recommendation |-> None]

NoDescription ==
    [name |-> "no_description", paths |-> <<>>, content_patterns |-> <<KesselLower>>,
     impact_level |-> "medium", description |-> Missing,
     recommendation |-> None]

BadRegex ==
    [name |-> "bad_regex", paths |-> <<>>, content_patterns |-> <<UnclosedGroup>>,
     impact_level |-> "low", description |-> "Unclosed group",
     recommendation |-> None]

RulePool ==
    {ClowdappConfig, KesselContent, AllChanges, DeployTree, Informational, BadLevel,
     NoDescription, BadRegex}

\* the sequences of at most n distinct elements of S
DistinctSeqs(S, n) ==
    {q \in UNION {[1..k -> S] : k \in 0..n} :
        \A i, j \in 1..Len(q) : i # j => q[i] # q[j]}

\* the "patterns" mapping of a configuration file: rule names are its keys
Configs == DistinctSeqs(RulePool, MaxRules)

\* what `git diff --name-only` lists
FileLists == DistinctSeqs(FilePool, MaxFiles)

----------------------------------------------------------------------------
(* Inputs: diffs *)

TextKesselTwice == <<"K", "e", "s", "s", "e", "l", " ", "k", "e", "s", "s", "e", "l">>

TextS3Twice == <<"s", "3", ".", "g", "e", "t", " ", "S", "3", ".", "g", "e", "t">>

TextPlusPlus == <<"+", "+", "k", "e", "s", "s", "e", "l">>

TextX == <<"x">>

Hunk(oldStart, newStart, body) ==
    [oldStart |-> oldStart, newStart |-> newStart, body |-> body]

KesselDiff ==
    [hunks |-> <<Hunk(1, 1, <<[kind |-> "ctx", text |-> TextX],
                              [kind |-> "add", text |-> TextKesselTwice]>>)>>,
     nonl |-> FALSE]

SmallDiffs == {EmptyDiff, KesselDiff}

\* the lines a first hunk is made of: text the rules match in a context, a removed
\* and an added line, an S3 call, and an added line whose own text begins with ++
BodyLines ==
    {[kind |-> "ctx", text |-> KesselLower], [kind |-> "del", text |-> KesselLower]}
        \cup {[kind |-> "add", text |-> t] : t \in {TextKesselTwice, TextS3Twice, TextPlusPlus}}

\* the lines the later hunks are made of
LaterBodyLines ==
    {[kind |-> "ctx", text |-> KesselLower], [kind |-> "add", text |-> TextKesselTwice]}

\* the hunk bodies of at most n lines
Bodies(lines, n) == UNION {[1..k -> lines] : k \in 1..n}

\* a first hunk followed by fewer than h later hunks, of at most n lines each
BodySeqs(h, n) ==
    {<<b>> \o bs : b \in Bodies(BodyLines, n),
                  bs \in UNION {[1..k -> Bodies(LaterBodyLines, n)] : k \in 0..(h - 1)}}

HunkGap == 9

\* hunks one after another: each starts HunkGap old lines after the previous one began,
\* its new range shifted by the lines added and removed before it
RECURSIVE MkHunks(_, _, _)
MkHunks(bodies, oldStart, newStart) ==
    IF bodies = <<>> THEN <<>>
    ELSE LET b == Head(bodies)
         IN  <<Hunk(oldStart, newStart, b)>>
                 \o MkHunks(Tail(bodies), oldStart + HunkGap,
                            newStart + HunkGap + CountKinds(b, {"add"}) - CountKinds(b, {"del"}))

\* the diffs of at most h hunks of at most n lines each, and the empty diff
GenDiffs(h, n) ==
    {EmptyDiff} \cup
    {[hunks |-> MkHunks(bs, 1, 1), nonl |-> nl] : bs \in BodySeqs(h, n), nl \in BOOLEAN}

ScanConfigs == {<<KesselIntegration, AwsS3, ClowdappKessel>>}

ScanFileLists == {<<DocsKessel>>}

----------------------------------------------------------------------------
(* main *)

FailOnChoices == {None, "low", "medium", "high", "critical"}

OutputFormats == {"json", "markdown", "github"}

\* format_markdown: the short "no impacts detected" form when overall_impact is NONE,
\* else the full report, which reads summary["total_items"]
FormatMarkdown(r) ==
    IF ImpactEq(r.overall_impact, "NONE") THEN "short"
    ELSE IF "total_items" \in DOMAIN r.summary THEN "full"
    ELSE "KeyError"

\* main: what is printed for an output format
Printed(r, format) == IF format = "json" THEN "json" ELSE FormatMarkdown(r)

\* main: the exit status after the output
ExitCode(overall_impact, threshold) ==
    IF threshold # None /\ ImpactGe(overall_impact, ImpactLevelOf(threshold)) THEN 1 ELSE 0

Init ==
    /\ pc = "start"
    /\ config = <<>>
    /\ report = EmptyReport
    /\ files = <<>>
    /\ fileIdx = 0
    /\ ruleIdx = 0
    /\ diff = EmptyDiff
    /\ analysed = <<>>
    /\ output = ""
    /\ fail_on = None
    /\ exit_code = -1
    /\ error = ""

\* SCEnvironmentImpactChecker.__init__: the configuration is loaded as it is written
Construct(configs) ==
    /\ pc = "start"
    /\ \E c \in configs : config' = c
    /\ report' = EmptyReport
    /\ pc' = "constructed"
    /\ UNCHANGED <<files, fileIdx, ruleIdx, diff, analysed, output, fail_on, exit_code, error>>

\* analyze, up to its loop: get_changed_files, and the early return when the list is
\* empty (also when git fails)
GetChangedFiles(lists) ==
    /\ pc = "constructed"
    /\ \E fs \in lists :
        /\ files' = fs
        /\ report' = [report EXCEPT !.changed_files = fs]
        /\ pc' = IF fs = <<>> THEN "output" ELSE "loop"
        /\ fileIdx' = IF fs = <<>> THEN 0 ELSE 1
    /\ UNCHANGED <<config, ruleIdx, diff, analysed, output, fail_on, exit_code, error>>

\* analyze: a file of the .github directory is skipped
SkipFile ==
    /\ pc = "loop"
    /\ fileIdx <= Len(files)
    /\ IsExcluded(files[fileIdx])
    /\ fileIdx' = fileIdx + 1
    /\ UNCHANGED <<pc, config, report, files, ruleIdx, diff, analysed, output, fail_on,
                   exit_code, error>>

\* analyze calls analyze_file, which gets the diff of the file
GetFileDiff(diffs) ==
    /\ pc = "loop"
    /\ fileIdx <= Len(files)
    /\ ~IsExcluded(files[fileIdx])
    /\ analysed' = Append(analysed, files[fileIdx])
    /\ IF config = <<>>
       THEN /\ fileIdx' = fileIdx + 1
            /\ UNCHANGED <<pc, ruleIdx, diff>>
       ELSE /\ \E d \in diffs : diff' = d
            /\ ruleIdx' = 1
            /\ pc' = "rules"
            /\ UNCHANGED fileIdx
    /\ UNCHANGED <<config, report, files, output, fail_on, exit_code, error>>

\* the end of one iteration of the rule loop: the next rule, or the next file
NextRule ==
    IF ruleIdx < Len(config)
    THEN /\ ruleIdx' = ruleIdx + 1
         /\ UNCHANGED <<pc, fileIdx, diff>>
    ELSE /\ fileIdx' = fileIdx + 1
         /\ pc' = "loop"
         /\ UNCHANGED <<ruleIdx, diff>>

Outcome == RuleOutcome(config[ruleIdx], files[fileIdx], DiffContent(diff))

\* analyze_file: the rule does not apply to the file (continue)
SkipRule ==
    /\ pc = "rules"
    /\ Outcome.kind = "skip"
    /\ NextRule
    /\ UNCHANGED <<config, report, files, analysed, output, fail_on, exit_code, error>>

\* analyze_file: the rule applies, its ImpactItem is added to the report
AddRuleItem ==
    /\ pc = "rules"
    /\ Outcome.kind = "item"
    /\ report' = AddItem(report, Outcome.item)
    /\ NextRule
    /\ UNCHANGED <<config, files, analysed, output, fail_on, exit_code, error>>

\* analyze_file: the rule raises; nothing catches it and the interpreter exits with 1
RuleRaises ==
    /\ pc = "rules"
    /\ Outcome.kind = "raise"
    /\ pc' = "crashed"
    /\ error' = Outcome.error
    /\ exit_code' = 1
    /\ UNCHANGED <<config, report, files, fileIdx, ruleIdx, diff, analysed, output, fail_on>>

\* analyze: after the last file the summary is generated and the report returned
FinishAnalyze ==
    /\ pc = "loop"
    /\ fileIdx > Len(files)
    /\ report' = GenerateSummary(report)
    /\ pc' = "output"
    /\ UNCHANGED <<config, files, fileIdx, ruleIdx, diff, analysed, output, fail_on,
                   exit_code, error>>

\* main: the report is printed as JSON or as markdown
Output ==
    /\ pc = "output"
    /\ \E format \in OutputFormats :
        LET printed == Printed(report, format)
        IN  /\ output' = printed
            /\ pc' = IF printed = "KeyError" THEN "crashed" ELSE "gate"
            /\ error' = IF printed = "KeyError" THEN "KeyError" ELSE error
            /\ exit_code' = IF printed = "KeyError" THEN 1 ELSE exit_code
    /\ UNCHANGED <<config, report, files, fileIdx, ruleIdx, diff, analysed, fail_on>>

\* main: the --fail-on threshold decides the exit status
Gate ==
    /\ pc = "gate"
    /\ \E threshold \in FailOnChoices :
        /\ fail_on' = threshold
        /\ exit_code' = ExitCode(report.overall_impact, threshold)
    /\ pc' = "exited"
    /\ UNCHANGED <<config, report, files, fileIdx, ruleIdx, diff, analysed, output, error>>

Next ==
    \/ Construct(Configs)
    \/ GetChangedFiles(FileLists)
    \/ SkipFile
    \/ GetFileDiff(SmallDiffs)
    \/ SkipRule
    \/ AddRuleItem
    \/ RuleRaises
    \/ FinishAnalyze
    \/ Output
    \/ Gate

Spec == Init /\ [][Next]_vars

\* the analysis of one file against content rules, over generated diffs
NextAnalyzeFile ==
    \/ Construct(ScanConfigs)
    \/ GetChangedFiles(ScanFileLists)
    \/ GetFileDiff(GenDiffs(MaxHunks, MaxHunkLines))
    \/ SkipRule
    \/ AddRuleItem
    \/ FinishAnalyze

SpecAnalyzeFile == Init /\ [][NextAnalyzeFile]_vars

----------------------------------------------------------------------------
(* What the claims are stated with *)

\* the fixed rank NONE < LOW < MEDIUM < HIGH < CRITICAL
RankOf == [NONE |-> 0, LOW |-> 1, MEDIUM |-> 2, HIGH |-> 3, CRITICAL |-> 4]

ThresholdRank == [low |-> 1, medium |-> 2, high |-> 3, critical |-> 4]

MaxRank(items) ==
    LET ranks == {0} \cup {RankOf[items[i].impact_level] : i \in 1..Len(items)}
    IN  CHOOSE m \in ranks : \A n \in ranks : n <= m

RECURSIVE FoldAddItem(_, _)
FoldAddItem(r, items) ==
    IF items = <<>> THEN r ELSE FoldAddItem(AddItem(r, Head(items)), Tail(items))

Reversed(q) == [i \in 1..Len(q) |-> q[Len(q) + 1 - i]]

SwappedAt(q, k) ==
    [i \in 1..Len(q) |-> IF i = k THEN q[k + 1] ELSE IF i = k + 1 THEN q[k] ELSE q[i]]

IsPrefix(p, q) == Len(p) <= Len(q) /\ SubSeq(q, 1, Len(p)) = p

AnalyzeReturned == pc \in {"output", "gate", "exited"}

WellFormed(rule) ==
    /\ rule.impact_level \in ImpactValues
    /\ rule.description # Missing
    /\ \A k \in 1..Len(rule.content_patterns) : Compile(rule.content_patterns[k]).valid

\* the file analyze_file was last called with, and how many rules of the rule loop have
\* been gone through for it
LastFile == analysed[Len(analysed)]

DoneRules == IF pc \in {"rules", "crashed"} THEN ruleIdx - 1 ELSE Len(config)

HasItem(rule, file_path) ==
    \E i \in 1..Len(report.items) :
        report.items[i].category = rule.name /\ report.items[i].file_path = file_path

ItemOf(rule, file_path) ==
    report.items[CHOOSE i \in 1..Len(report.items) :
        report.items[i].category = rule.name /\ report.items[i].file_path = file_path]

\* the added lines of a diff with their line numbers in the resulting file
HunkAdditions(h) ==
    LET idx == {k \in 1..Len(h.body) : h.body[k].kind = "add"}
        nth[n \in 0..Cardinality(idx)] ==
            IF n = 0 THEN 0 ELSE CHOOSE k \in idx : k > nth[n - 1] /\ \A j \in idx : j > nth[n - 1] => k <= j
    IN  [n \in 1..Cardinality(idx) |->
            [text |-> h.body[nth[n]].text,
             line_number |-> h.newStart + CountKinds(SubSeq(h.body, 1, nth[n] - 1), {"ctx", "add"})]]

RECURSIVE ResultingAdditions(_)
ResultingAdditions(hunks) ==
    IF hunks = <<>> THEN <<>>
    ELSE HunkAdditions(Head(hunks)) \o ResultingAdditions(Tail(hunks))

\* glob matching by path segment: `*` and `?` never match '/', `**/` matches any
\* number of whole directories
RECURSIVE SegmentGlobFrom(_, _, _, _)
SegmentGlobFrom(name, i, pat, j) ==
    IF j > Len(pat) THEN i > Len(name)
    ELSE IF /\ CharAt(pat, j) = "*" /\ CharAt(pat, j + 1) = "*" /\ CharAt(pat, j + 2) = "/"
            /\ (i = 1 \/ CharAt(name, i - 1) = "/")
         THEN \/ SegmentGlobFrom(name, i, pat, j + 3)
              \/ \E n \in i..Len(name) : name[n] = "/" /\ SegmentGlobFrom(name, n + 1, pat, j)
    ELSE IF pat[j] = "*"
         THEN \/ SegmentGlobFrom(name, i, pat, j + 1)
              \/ (i <= Len(name) /\ name[i] # "/" /\ SegmentGlobFrom(name, i + 1, pat, j))
    ELSE IF pat[j] = "?"
         THEN i <= Len(name) /\ name[i] # "/" /\ SegmentGlobFrom(name, i + 1, pat, j + 1)
    ELSE i <= Len(name) /\ name[i] = pat[j] /\ SegmentGlobFrom(name, i + 1, pat, j + 1)

SegmentGlob(name, pat) == SegmentGlobFrom(name, 1, pat, 1)

UnderDotGithub(file_path) ==
    \/ file_path = <<".", "g", "i", "t", "h", "u", "b">>
    \/ (Len(file_path) >= 8 /\ SubSeq(file_path, 1, 8) = <<".", "g", "i", "t", "h", "u", "b", "/">>)

----------------------------------------------------------------------------
(* C1 *)

OverallIsMax ==
    /\ report.overall_impact \in ImpactLevels
    /\ RankOf[report.overall_impact] = MaxRank(report.items)
    /\ FoldAddItem(EmptyReport, Reversed(report.items)).overall_impact = report.overall_impact
    /\ \A k \in 1..(Len(report.items) - 1) :
        FoldAddItem(EmptyReport, SwappedAt(report.items, k)).overall_impact
            = report.overall_impact

OverallNeverDecreases ==
    /\ IsPrefix(report.items, report'.items)
    /\ RankOf[report'.overall_impact] >= RankOf[report.overall_impact]

\* C1: after any sequence of add_item calls from the empty report, overall_impact is the
\* maximum, under the rank NONE < LOW < MEDIUM < HIGH < CRITICAL, of the levels of the
\* items added so far; it never decreases from one step to the next; and adding the same
\* items in another order (reversed, or with two neighbours swapped) ends at the same value.
OverallImpactIsMaximum == []OverallIsMax /\ [][OverallNeverDecreases]_vars

\* an item of a lower level was added after an item of a higher level
LowerAfterHigher ==
    \E i, j \in 1..Len(report.items) :
        /\ i < j
        /\ RankOf[report.items[i].impact_level] > RankOf[report.items[j].impact_level]
        /\ RankOf[report.items[j].impact_level] > 0

----------------------------------------------------------------------------
(* C2 *)

\* C2: a run that completes analysis and output exits with 1 exactly when --fail-on was
\* supplied and overall_impact is at or above the threshold in rank order, and with 0
\* otherwise; without a threshold it exits with 0 whatever overall_impact is.
ExitCodeFollowsThreshold ==
    pc = "exited" =>
        exit_code = IF /\ fail_on # None
                       /\ RankOf[report.overall_impact] >= ThresholdRank[fail_on]
                    THEN 1 ELSE 0

\* overall MEDIUM passes the threshold HIGH; a CRITICAL run without threshold passes too
MediumBelowHighExitsZero ==
    /\ pc = "exited"
    /\ report.overall_impact = "MEDIUM"
    /\ fail_on = "high"
    /\ exit_code = 0

----------------------------------------------------------------------------
(* C3 *)

\* C3: the lines the diff scan treats as additions are exactly the added lines of the
\* diff, in file order (k added lines give k additions), each paired with its line number
\* in the resulting file: the new-range start of its hunk plus the context and added
\* lines before it in the hunk.
ScanYieldsEveryAddedLine ==
    AddedLines(DiffContent(diff), 1, 0, <<>>) = ResultingAdditions(diff.hunks)

----------------------------------------------------------------------------
(* C4 *)

\* some content pattern matches, ignoring case, the text of some added line of the diff
ContentMatchesAddedLine(rule, d) ==
    LET added == ResultingAdditions(d.hunks)
    IN  \E a \in 1..Len(added), k \in 1..Len(rule.content_patterns) :
            FindAll(rule.content_patterns[k], added[a].text) # <<>>

RuleApplies(rule, file_path, d) ==
    /\ rule.paths = <<>> \/ CheckPathPatterns(file_path, rule.paths)
    /\ rule.content_patterns = <<>> \/ ContentMatchesAddedLine(rule, d)

\* C4: for the analysed file and every well-formed rule gone through for it, the report
\* holds an evidence of the rule for the file if and only if the rule has no path
\* patterns or one of them matches the path, and the rule has no content patterns or one
\* of them matches, case-insensitively, the text of an added line of the file's diff.
EvidenceIffRuleApplies ==
    analysed # <<>> =>
        \A k \in 1..DoneRules :
            WellFormed(config[k]) =>
                (HasItem(config[k], LastFile) <=> RuleApplies(config[k], LastFile, diff))

----------------------------------------------------------------------------
(* C5 *)

\* C5: a well-formed rule whose only filter is its path patterns fires on a file exactly
\* when the path matches one of the patterns segment by segment, `*` never matching '/'
\* (deploy/*.yml fires on deploy/clowdapp.yml and not on deploy/sub/clowdapp.yml), and
\* its evidence has an empty detail list whatever the diff is.
PathRuleFiresBySegmentGlob ==
    analysed # <<>> =>
        \A k \in 1..DoneRules :
            (WellFormed(config[k]) /\ config[k].paths # <<>> /\ config[k].content_patterns = <<>>) =>
                /\ HasItem(config[k], LastFile)
                       <=> \E n \in 1..Len(config[k].paths) : SegmentGlob(LastFile, config[k].paths[n])
                /\ HasItem(config[k], LastFile) => ItemOf(config[k], LastFile).details = <<>>

----------------------------------------------------------------------------
(* C6 *)

\* the (matched substring, line number) pairs in the order of the match sequence: diff
\* line order, then pattern order, then position in the line
MatchedPairs(diff_content, patterns) ==
    LET added == AddedLines(diff_content, 1, 0, <<>>)
    IN  FlattenSeq([a \in 1..Len(added) |->
            FlattenSeq([k \in 1..Len(patterns) |->
                LET whole == WholeMatchesFrom(Compile(patterns[k]), added[a].text, 1)
                IN  [m \in 1..Len(whole) |-> <<whole[m], added[a].line_number>>]])])

RECURSIVE DistinctInOrder(_, _)
DistinctInOrder(q, seen) ==
    IF q = <<>> THEN <<>>
    ELSE IF Head(q) \in seen THEN DistinctInOrder(Tail(q), seen)
    ELSE <<Head(q)>> \o DistinctInOrder(Tail(q), seen \cup {Head(q)})

FirstPairs(diff_content, patterns) ==
    LET pairs == DistinctInOrder(MatchedPairs(diff_content, patterns), {})
    IN  SubSeq(pairs, 1, IF Len(pairs) > 5 THEN 5 ELSE Len(pairs))

\* C6: the detail list of an evidence of a rule with content patterns has between 1 and
\* 5 entries, one for each of the first distinct (matched substring, line number) pairs
\* of the match sequence in first-seen order, and no pair twice.
DetailsAreFirstDistinctPairs ==
    analysed # <<>> =>
        \A k \in 1..DoneRules :
            (config[k].content_patterns # <<>> /\ HasItem(config[k], LastFile)) =>
                LET details == ItemOf(config[k], LastFile).details
                    pairs == FirstPairs(DiffContent(diff), config[k].content_patterns)
                IN  /\ Len(details) >= 1 /\ Len(details) <= 5
                    /\ Len(details) = Len(pairs)
                    /\ \A n \in 1..Len(details) :
                        /\ details[n].found = pairs[n][1]
                        /\ details[n].line_number = pairs[n][2]
                        /\ details[n].file_path = LastFile

----------------------------------------------------------------------------
(* C7 *)

RECURSIVE NotUnderDotGithub(_)
NotUnderDotGithub(paths) ==
    IF paths = <<>> THEN <<>>
    ELSE IF UnderDotGithub(Head(paths)) THEN NotUnderDotGithub(Tail(paths))
    ELSE <<Head(paths)>> \o NotUnderDotGithub(Tail(paths))

\* C7: no evidence of the report has a file_path that is `.github` or begins with
\* `.github/`, such a file is never given to analyze_file, and when analyze returns every
\* other changed file has been analysed, in the order of the changed-file list.
DotGithubNeverAnalysed ==
    /\ \A i \in 1..Len(report.items) : ~UnderDotGithub(report.items[i].file_path)
    /\ \A i \in 1..Len(analysed) : ~UnderDotGithub(analysed[i])
    /\ IsPrefix(analysed, NotUnderDotGithub(files))
    /\ AnalyzeReturned => analysed = NotUnderDotGithub(files)

\* a completed run with a rule that fires on every path and a changed-file list that
\* begins with the file `.github` or a file under `.github/`, which returned evidence
\* for the other file only
DotGithubSkippedOtherAnalysed ==
    /\ pc = "exited"
    /\ \E k \in 1..Len(config) : config[k].paths = <<>> /\ config[k].content_patterns = <<>>
    /\ Len(files) >= 2
    /\ UnderDotGithub(files[1])
    /\ Len(analysed) = 1
    /\ report.items # <<>>

----------------------------------------------------------------------------
(* C8 *)

\* C8: whenever analyze has returned, for every changed-file list including the empty
\* one, summary holds total_items, the number of evidences, and the number of evidences of
\* each of critical, high, medium and low, and total_items is the sum of the four.
SummaryIsFinalized ==
    AnalyzeReturned =>
        /\ DOMAIN report.summary = {"total_items", "critical", "high", "medium", "low"}
        /\ report.summary.total_items = Len(report.items)
        /\ report.summary.critical = CountLevel(report.items, "CRITICAL")
        /\ report.summary.high = CountLevel(report.items, "HIGH")
        /\ report.summary.medium = CountLevel(report.items, "MEDIUM")
        /\ report.summary.low = CountLevel(report.items, "LOW")
        /\ report.summary.total_items =
               report.summary.critical + report.summary.high
                   + report.summary.medium + report.summary.low

----------------------------------------------------------------------------
(* C9 *)

\* C9: no evidence of the report has severity NONE, so overall_impact is NONE exactly
\* when there is no evidence, and the short "no impacts detected" form of the report is
\* printed only when there is no evidence.
NoEvidenceOfLevelNone ==
    /\ \A i \in 1..Len(report.items) : report.items[i].impact_level # "NONE"
    /\ report.overall_impact = "NONE" <=> report.items = <<>>
    /\ output = "short" => report.items = <<>>

----------------------------------------------------------------------------
(* C10 *)

\* C10: a rule set with a malformed rule (an unknown or missing impact_level, a missing
\* description, an invalid content regex) is rejected when it is loaded, so no run aborts
\* on a malformed rule after evidence has been appended to the report.
NoAbortAfterEvidence ==
    pc = "crashed" => report.items = <<>>

----------------------------------------------------------------------------
(* The built-in rule set: what _load_config returns when no configuration file is given *)

\* a changed file directly under migrations/versions
MigrationFlat == <<"m", "i", "g", "r", "a", "t", "i", "o", "n", "s", "/", "v", "e", "r", "s", "i", "o", "n", "s", "/", "0", "0", "0", "1", ".", "p", "y">>

\* a changed file one directory below migrations/versions
MigrationNested == <<"m", "i", "g", "r", "a", "t", "i", "o", "n", "s", "/", "v", "e", "r", "s", "i", "o", "n", "s", "/", "a", "/", "0", "0", "0", "1", ".", "p", "y">>

\* _load_config: the default rule database_migrations
DefaultDatabaseMigrations ==
    [name |-> "database_migrations",
     paths |-> <<<<"m", "i", "g", "r", "a", "t", "i", "o", "n", "s", "/", "v", "e", "r", "s", "i", "o", "n", "s", "/", "*", "*", "/", "*", ".", "p", "y">>,
               <<"d", "b", "/", "m", "i", "g", "r", "a", "t", "e", "/", "*", "*", "/", "*", ".", "r", "b">>>>,
     content_patterns |-> <<>>,
     impact_level |-> "high",
     description |-> "Database migration detected",
     recommendation |-> "Review migration for SC Environment compatibility and timing requirements"]

\* _load_config: the default rule clowdapp_config
DefaultClowdappConfig ==
    [name |-> "clowdapp_config",
     paths |-> <<<<"d", "e", "p", "l", "o", "y", "/", "c", "l", "o", "w", "d", "a", "p", "p", ".", "y", "m", "l">>,
               <<"d", "e", "p", "l", "o", "y", "/", "*", ".", "y", "m", "l">>>>,
     content_patterns |-> <<>>,
     impact_level |-> "high",
     description |-> "ClowdApp configuration change",
     recommendation |-> "Verify all changes are compatible with SC Environment"]

\* _load_config: the default rule kessel_integration
DefaultKesselIntegration ==
    [name |-> "kessel_integration",
     paths |-> <<<<"*", "*", "/", "*", "k", "e", "s", "s", "e", "l", "*">>>>,
     content_patterns |-> <<<<"k", "e", "s", "s", "e", "l">>,
                          <<"K", "E", "S", "S", "E", "L">>>>,
     impact_level |-> "critical",
     description |-> "Kessel integration change",
     recommendation |-> "Kessel may is not available in SC Environment. Ensure feature flags and bypass options are configured."]

\* _load_config: the default rule aws_s3
DefaultAwsS3 ==
    [name |-> "aws_s3",
     paths |-> <<>>,
     content_patterns |-> <<<<"S", "3", ".", "*", "b", "u", "c", "k", "e", "t">>,
                          <<"a", "w", "s", ".", "*", "s", "3">>,
                          <<"s", "3", "\\", ".", "(", "g", "e", "t", "|", "p", "u", "t", "|", "d", "e", "l", "e", "t", "e", "|", "l", "i", "s", "t", ")">>,
                          <<"b", "o", "t", "o", "3", ".", "*", "s", "3">>,
                          <<"S", "3", "_", ".", "*", "B", "U", "C", "K", "E", "T">>>>,
     impact_level |-> "high",
     description |-> "AWS S3 integration change",
     recommendation |-> "Verify S3 bucket configuration for SC Environment region and permissions"]

\* _load_config: the default rule aws_rds
DefaultAwsRds ==
    [name |-> "aws_rds",
     paths |-> <<>>,
     content_patterns |-> <<<<"R", "D", "S">>,
                          <<"a", "w", "s", ".", "*", "r", "d", "s">>,
                          <<"a", "u", "r", "o", "r", "a">>,
                          <<"d", "a", "t", "a", "b", "a", "s", "e", ".", "*", "e", "n", "d", "p", "o", "i", "n", "t">>,
                          <<"D", "B", "_", "H", "O", "S", "T", ".", "*", "a", "m", "a", "z", "o", "n", "a", "w", "s">>>>,
     impact_level |-> "high",
     description |-> "AWS RDS configuration change",
     recommendation |-> "Ensure RDS endpoints and credentials are configured for SC Environment"]

\* _load_config: the default rule aws_elasticache
DefaultAwsElasticache ==
    [name |-> "aws_elasticache",
     paths |-> <<>>,
     content_patterns |-> <<<<"e", "l", "a", "s", "t", "i", "c", "a", "c", "h", "e">>,
                          <<"r", "e", "d", "i", "s", ".", "*", "a", "m", "a", "z", "o", "n", "a", "w", "s">>,
                          <<"c", "a", "c", "h", "e", "\\", ".", ".", "*", "\\", ".", "a", "m", "a", "z", "o", "n", "a", "w", "s">>>>,
     impact_level |-> "medium",
     description |-> "AWS ElastiCache configuration change",
     recommendation |-> "Verify ElastiCache endpoints for SC Environment compatibility"]

\* _load_config: the default rule secrets_management
DefaultSecretsManagement ==
    [name |-> "secrets_management",
     paths |-> <<>>,
     content_patterns |-> <<<<"s", "e", "c", "r", "e", "t", "R", "e", "f">>,
                          <<"s", "e", "c", "r", "e", "t", "N", "a", "m", "e", ":">>,
                          <<"s", "e", "c", "r", "e", "t", ".", "*", "k", "e", "y">>,
                          <<"A", "W", "S", ".", "*", "S", "E", "C", "R", "E", "T">>>>,
     impact_level |-> "medium",
     description |-> "Secrets configuration change",
     recommendation |-> "Ensure secrets are available in SC Environment secret store"]

\* _load_config: the default rule kafka_topics
DefaultKafkaTopics ==
    [name |-> "kafka_topics",
     paths |-> <<>>,
     content_patterns |-> <<<<"t", "o", "p", "i", "c", "N", "a", "m", "e", ":">>,
                          <<"K", "A", "F", "K", "A", ".", "*", "T", "O", "P", "I", "C">>,
                          <<"k", "a", "f", "k", "a", "T", "o", "p", "i", "c", "s", ":">>>>,
     impact_level |-> "medium",
     description |-> "Kafka topic configuration change",
     recommendation |-> "New topics may need to be created in SC Environment Kafka cluster"]

\* _load_config: the default rule external_dependencies
DefaultExternalDependencies ==
    [name |-> "external_dependencies",
     paths |-> <<>>,
     content_patterns |-> <<<<"d", "e", "p", "e", "n", "d", "e", "n", "c", "i", "e", "s", ":">>,
                          <<"h", "t", "t", "p", ":", "/", "/">>,
                          <<"h", "t", "t", "p", "s", ":", "/", "/", "(", "?", "!", "g", "i", "t", "h", "u", "b", "\\", ".", "c", "o", "m", ")">>>>,
     impact_level |-> "low",
     description |-> "External dependency change",
     recommendation |-> "Verify external endpoints are accessible from SC Environment"]

\* _load_config: the default rule environment_config
DefaultEnvironmentConfig ==
    [name |-> "environment_config",
     paths |-> <<>>,
     content_patterns |-> <<<<"E", "N", "V", "_", "N", "A", "M", "E">>,
                          <<"E", "N", "V", "I", "R", "O", "N", "M", "E", "N", "T">>,
                          <<"p", "r", "o", "d", "u", "c", "t", "i", "o", "n", ".", "*", "c", "o", "n", "f", "i", "g">>,
                          <<"s", "t", "a", "g", "e", ".", "*", "c", "o", "n", "f", "i", "g">>>>,
     impact_level |-> "low",
     description |-> "Environment configuration change detected",
     recommendation |-> "Review environment-specific settings to ensure SC Environment is properly configured."]

\* _load_config: the default rule feature_flags
DefaultFeatureFlags ==
    [name |-> "feature_flags",
     paths |-> <<>>,
     content_patterns |-> <<<<"U", "N", "L", "E", "A", "S", "H">>,
                          <<"f", "e", "a", "t", "u", "r", "e", ".", "*", "f", "l", "a", "g">>,
                          <<"B", "Y", "P", "A", "S", "S", "_">>,
                          <<"E", "N", "A", "B", "L", "E", "_", ".", "*", "F", "E", "A", "T", "U", "R", "E">>>>,
     impact_level |-> "low",
     description |-> "Feature flag change detected",
     recommendation |-> "Verify feature flags are properly configured for SC Environment. Test bypass options for services not available in SC Environment."]

\* _load_config: the default rules in their declaration order (a dict keeps it)
DefaultConfig ==
    <<DefaultDatabaseMigrations,
      DefaultClowdappConfig,
      DefaultKesselIntegration,
      DefaultAwsS3,
      DefaultAwsRds,
      DefaultAwsElasticache,
      DefaultSecretsManagement,
      DefaultKafkaTopics,
      DefaultExternalDependencies,
      DefaultEnvironmentConfig,
      DefaultFeatureFlags>>

\* get_file_diff: a diff that only removes text (one context line, one removed line)
RemovalDiff ==
    [hunks |-> <<Hunk(1, 1, <<[kind |-> "ctx", text |-> TextX],
                              [kind |-> "del", text |-> KesselLower]>>)>>,
     nonl |-> FALSE]

\* get_file_diff: the diffs that add no line, so that no content pattern is searched
NoAdditionDiffs == {EmptyDiff, RemovalDiff}

\* get_changed_files: the lists of changed files given to the built-in rule set
DefaultFileLists == DistinctSeqs({DeployClowdapp, MigrationFlat, MigrationNested}, MaxFiles)

\* analyze with the built-in rule set
NextDefault ==
    \/ Construct({DefaultConfig})
    \/ GetChangedFiles(DefaultFileLists)
    \/ GetFileDiff(NoAdditionDiffs)
    \/ SkipRule
    \/ AddRuleItem
    \/ FinishAnalyze

SpecDefault == Init /\ [][NextDefault]_vars

----------------------------------------------------------------------------
(* C11 *)

\* C11: with the built-in rule set, analysing the changed files deploy/clowdapp.yml and
\* migrations/versions/0001.py, whose diffs add no text matching a content rule, yields
\* exactly two evidences, clowdapp_config for the first file and database_migrations for
\* the second, both HIGH, so that overall_impact is HIGH and the counts are high = 2,
\* critical = 0, medium = 0, low = 0.
DefaultRulesFlagBothFiles ==
    (/\ config = DefaultConfig
     /\ files = <<DeployClowdapp, MigrationFlat>>
     /\ AnalyzeReturned)
    => /\ Len(report.items) = 2
       /\ report.items[1].category = "clowdapp_config"
       /\ report.items[1].file_path = DeployClowdapp
       /\ report.items[1].impact_level = "HIGH"
       /\ report.items[2].category = "database_migrations"
       /\ report.items[2].file_path = MigrationFlat
       /\ report.items[2].impact_level = "HIGH"
       /\ report.overall_impact = "HIGH"
       /\ report.summary.high = 2
       /\ report.summary.critical = 0
       /\ report.summary.medium = 0
       /\ report.summary.low = 0

----------------------------------------------------------------------------
(* C12 *)

\* the position of the evidence's file in the changed-file list
FilePosition(item) == CHOOSE p \in 1..Len(files) : files[p] = item.file_path

\* the position of the evidence's rule in the rule set
RulePosition(item) == CHOOSE k \in 1..Len(config) : config[k].name = item.category

\* lexicographic order on (file position, rule position)
EvidenceBefore(a, b) ==
    \/ FilePosition(a) < FilePosition(b)
    \/ FilePosition(a) = FilePosition(b) /\ RulePosition(a) < RulePosition(b)

\* C12: at every point of an analysis run the evidence list is strictly ordered by
\* (position of the file in the changed-file list, position of the rule in the rule
\* set): every evidence is of a changed file and a rule of the set, evidences of an
\* earlier file precede those of a later file, within a file they follow the rule
\* order, no (file, rule) pair has two evidences, and while the files are analysed one
\* after another every evidence is of a file already left or of a rule already tried
\* on the file under analysis.
EvidenceOrderedByFileThenRule ==
    /\ \A i \in 1..Len(report.items) :
        /\ \E p \in 1..Len(files) : files[p] = report.items[i].file_path
        /\ \E k \in 1..Len(config) : config[k].name = report.items[i].category
    /\ \A i, j \in 1..Len(report.items) :
        i < j => EvidenceBefore(report.items[i], report.items[j])
    /\ pc \in {"loop", "rules", "crashed"} =>
        \A i \in 1..Len(report.items) :
            \/ FilePosition(report.items[i]) < fileIdx
            \/ /\ pc \in {"rules", "crashed"}
               /\ FilePosition(report.items[i]) = fileIdx
               /\ RulePosition(report.items[i]) < ruleIdx

\* two rules have each fired on each of two files: four evidences, the two of the first
\* file before the two of the second
TwoRulesFiredOnTwoFiles ==
    /\ Len(report.items) = 4
    /\ report.items[1].file_path = report.items[2].file_path
    /\ report.items[3].file_path = report.items[4].file_path
    /\ report.items[1].file_path # report.items[3].file_path
    /\ report.items[1].category = report.items[3].category
    /\ report.items[2].category = report.items[4].category
    /\ report.items[1].category # report.items[2].category

====
